---------------------------- MODULE Spec2Model ----------------------------
(***************************************************************************)
(* Model of the asteroid-impact dashboard (AsteroidDashboard.js) and of    *)
(* the scientific report generator (ScientificReport.generateReportData). *)
(*                                                                         *)
(* Numbers.  JavaScript doubles are modelled in two fixed-point forms:     *)
(*   - a "magnitude" (a non-negative real that the code multiplies,        *)
(*     divides and raises to powers) is a record [zero, lg] where lg is    *)
(*     Scale * log10 of the value; products and powers are then exact      *)
(*     integer sums and multiples of lg;                                   *)
(*   - a "level" (a value the code obtains with Math.log10 and adds to)    *)
(*     is an integer counting 1/Scale units.                               *)
(* Log10 and Exp10Floor are computed by integer algorithms (binary         *)
(* logarithm by repeated squaring, exponential by its power series).      *)
(***************************************************************************)
EXTENDS Integers, Sequences, FiniteSets, TLC

VARIABLES
    simulationForm,   \* AsteroidDashboard state: the custom simulation form
    simulationMode,   \* AsteroidDashboard state: "custom" or "neo"
    neoSelected,      \* NEOAsteroidSearch state: its selectedAsteroid, or NULL
    selectedAsteroid, \* AsteroidDashboard state, handed to ScientificReport as props.asteroidData
    simulationData,   \* AsteroidDashboard state, handed to ScientificReport as props.simulationData
    isMapLocked,      \* AsteroidDashboard state
    loading,          \* AsteroidDashboard state
    isSimulating,     \* AsteroidDashboard state
    pendingSimulation,\* the runSimulation calls awaiting cosmosAPI.simulateImpact, each with its closure
    showScientificReport, \* AsteroidDashboard state: the report modal is mounted
    reportData,       \* ScientificReport state: the generated report, or NULL
    isGenerating,     \* ScientificReport state
    reportTimers,     \* pending setTimeout callbacks of generateReportData, oldest first
    simParams,        \* the impact parameters of the simulation simulationData is the result of
    prevReport,       \* the report the last generation replaced, or NULL
    fallbackData,     \* ReportSpec only: the local fallback result computed for simParams
    now,              \* the wall clock (Date.now()), in ticks
    center,           \* AsteroidDashboard state: <<latitude, longitude>> of the impact marker
    mapClickFeedback, \* AsteroidDashboard state: the click marker, or NULL
    feedbackTimers,   \* pending setTimeout callbacks of handleMapClick, oldest first
    dangerZones,      \* AsteroidDashboard state
    safeZones,        \* AsteroidDashboard state
    shelters,         \* AsteroidDashboard state
    evacuationRoutes, \* AsteroidDashboard state
    optimalRoutes,    \* AsteroidDashboard state
    aiOptimizedRoutes,\* AsteroidDashboard state
    alerts,           \* AsteroidDashboard state, newest first
    requests          \* CosmosSentinelAPI.request: the calls in progress, by slot

mapVars == <<center, mapClickFeedback, feedbackTimers>>

evacuationVars == <<dangerZones, safeZones, shelters, evacuationRoutes, alerts>>

aiVars == <<optimalRoutes, aiOptimizedRoutes>>

dashboardVars == <<simulationForm, simulationMode, neoSelected, isMapLocked, loading,
                   isSimulating, pendingSimulation, showScientificReport,
                   mapVars, evacuationVars, aiVars, requests>>

vars == <<simulationForm, simulationMode, neoSelected, selectedAsteroid, simulationData,
          isMapLocked, loading, isSimulating, pendingSimulation, showScientificReport,
          reportData, isGenerating, reportTimers, simParams, prevReport, fallbackData, now,
          center, mapClickFeedback, feedbackTimers, dangerZones, safeZones, shelters,
          evacuationRoutes, optimalRoutes, aiOptimizedRoutes, alerts, requests>>

NULL == [null |-> TRUE]

----------------------------------------------------------------------------
(* Bounds of the model *)

MaxDiameterK == 4
MaxVelocityK == 3
MaxClock == 1
MaxTimers == 2
MaxClicks == 1
MaxRequests == 2
MaxOverlap == 2

----------------------------------------------------------------------------
(* Fixed-point arithmetic standing for JavaScript's Math on doubles *)

Scale == 10 ^ 4

MantissaBits == 7 + 7

RECURSIVE FloorLog2(_)
FloorLog2(n) == IF n < 2 THEN 0 ELSE 1 + FloorLog2(n \div 2)

RECURSIVE Log2Frac(_, _, _)
\* the first `bits` fraction bits of log2(y / 2^MantissaBits), y in [2^M, 2^(M+1))
Log2Frac(y, bits, acc) ==
    IF bits = 0 THEN acc
    ELSE LET y2 == (y * y) \div (2 ^ MantissaBits)
         IN  IF y2 >= 2 ^ (MantissaBits + 1)
             THEN Log2Frac(y2 \div 2, bits - 1, 2 * acc + 1)
             ELSE Log2Frac(y2, bits - 1, 2 * acc)

\* Scale * log10(n) for an integer n >= 1, to within two units
Log10Calc(n) ==
    LET k == FloorLog2(n)
        y == IF k <= MantissaBits THEN n * 2 ^ (MantissaBits - k)
                                  ELSE n \div 2 ^ (k - MantissaBits)
        x == k * 2 ^ MantissaBits + Log2Frac(y, MantissaBits, 0)
    IN  (x * 3010 + (x * 3) \div 10) \div (2 ^ MantissaBits)

\* Log10Calc, computed once for the arguments up to Scale
Log10Table == [n \in 1..Scale |-> Log10Calc(n)]

Log10(n) == IF n <= Scale THEN Log10Table[n] ELSE Log10Calc(n)

RECURSIVE ExpSeries(_, _, _)
\* Scale * (1 + w/1 (1 + w/2 (... (1 + w/terms)))), w = Scale * u: the series of e^u
ExpSeries(w, k, t) ==
    IF k = 0 THEN t
    ELSE ExpSeries(w, k - 1, Scale + (w * t + (k * Scale) \div 2) \div (k * Scale))

\* Scale * 10 ^ (r / Scale) for r in 0..Scale-1: e ^ (r ln 10 / Scale), computed once
Exp10Table ==
    [r \in 0..(Scale - 1) |-> ExpSeries((r * 23026 + Scale \div 2) \div Scale, 14, Scale)]

Exp10Mantissa(r) == Exp10Table[r]

\* floor(10 ^ (lg / Scale)), to four significant digits
Exp10Floor(lg) ==
    LET q == lg \div Scale
        m == Exp10Mantissa(lg % Scale)
    IN  IF q < 0 THEN 0
        ELSE IF q >= 4 THEN m * 10 ^ (q - 4) ELSE m \div 10 ^ (4 - q)

RZero == [zero |-> TRUE, lg |-> 0]
RPos(lg) == [zero |-> FALSE, lg |-> lg]
RInt(n) == IF n = 0 THEN RZero ELSE RPos(Log10(n))
RRat(n, d) == IF n = 0 THEN RZero ELSE RPos(Log10(n) - Log10(d))
\* n * 10^e
RSci(n, e) == RPos(Log10(n) + e * Scale)
RMul(a, b) == IF a.zero \/ b.zero THEN RZero ELSE RPos(a.lg + b.lg)
RDiv(a, b) == IF a.zero THEN RZero ELSE RPos(a.lg - b.lg)
\* Math.pow(a, n/d) for n/d > 0
RPow(a, n, d) == IF a.zero THEN RZero ELSE RPos((a.lg * n) \div d)
RLess(a, b) == IF b.zero THEN FALSE ELSE IF a.zero THEN TRUE ELSE a.lg < b.lg
\* Math.floor
RFloor(a) == IF a.zero THEN 0 ELSE Exp10Floor(a.lg)
\* a + b: the larger one times (1 + ratio), the ratio taken to four digits
RAdd(a, b) ==
    IF a.zero THEN b
    ELSE IF b.zero THEN a
    ELSE LET hi == IF a.lg >= b.lg THEN a.lg ELSE b.lg
             lo == IF a.lg >= b.lg THEN b.lg ELSE a.lg
             ratio == Exp10Floor(lo - hi + 4 * Scale)
         IN  RPos(hi + Log10(10000 + ratio) - Log10(10000))

NegInfinity == 0 - 2 ^ 30
\* Math.log10 of a magnitude, as a level
RLog10(a) == IF a.zero THEN NegInfinity ELSE a.lg
LevelOf(n) == n * Scale
LevelAdd(a, b) == IF a = NegInfinity THEN NegInfinity ELSE a + b

\* Math.PI, as 3.1416
PI == RRat(3927, 1250)

\* Math.sin(angle * Math.PI / 180) for 0 <= angle <= 90, as a magnitude
SinDeg(angle) ==
    LET x  == (angle * 174533) \div 1000
        x2 == (x * x) \div Scale
        a  == Scale - x2 \div 72
        b  == Scale - ((x2 * a) \div Scale) \div 42
        c  == Scale - ((x2 * b) \div Scale) \div 20
        d  == Scale - ((x2 * c) \div Scale) \div 6
        s  == (x * d) \div Scale
    IN  IF s <= 0 THEN RZero ELSE RPos(Log10(s) - Log10(Scale))

----------------------------------------------------------------------------
(* ScientificReport.generateReportData *)

\* simulationData?.field || dflt, for a numeric field
NumOr(sd, field, dflt) ==
    IF sd # NULL /\ field \in DOMAIN sd /\ sd[field] # 0 THEN sd[field] ELSE dflt

\* simulationData?.field || dflt, for a string field
StrOr(sd, field, dflt) ==
    IF sd # NULL /\ field \in DOMAIN sd /\ sd[field] # "" THEN sd[field] ELSE dflt

ReportDiameter(sd) == NumOr(sd, "diameter_m", 200)
ReportVelocity(sd) == NumOr(sd, "velocity_kms", 17)
ReportAngle(sd) == NumOr(sd, "impact_angle_deg", 30)
ReportTargetType(sd) == StrOr(sd, "target_type", "solo")

mass(diameter) ==
    RMul(RMul(PI, RPow(RDiv(RInt(diameter), RInt(2)), 3, 1)), RInt(3000))

energyJoules(diameter, velocity) ==
    RMul(RMul(RRat(1, 2), mass(diameter)), RPow(RMul(RInt(velocity), RInt(1000)), 2, 1))

\* mutant of energyMegatons: the conversion applied to the mass, the velocity lost
energyMegatonsOfMass(diameter, velocity) ==
    RDiv(mass(diameter), RSci(4184, 12))

energyMegatons(diameter, velocity) ==
    RDiv(energyJoules(diameter, velocity), RSci(4184, 12))

seismicMagnitude(energy) == LevelAdd(RLog10(energy), LevelOf(4))

craterDiameter(energy, angle) ==
    RMul(RPow(energy, 294, 1000), RPow(SinDeg(angle), 1, 2))

fireballRadius(energy) == RMul(RPow(energy, 4, 10), RRat(1, 2))

shockwaveIntensity(energy) ==
    IF energy.zero THEN NegInfinity ELSE LevelOf(120) + RLog10(energy) * 10

peakWinds(energy) == RMul(RPow(energy, 3, 10), RInt(50))

isAirburst(diameter, velocity) == diameter < 150 \/ velocity > 50

impactType(diameter, velocity) ==
    IF isAirburst(diameter, velocity) THEN "AIRBURST ATMOSFERICO" ELSE "IMPACTO DIRETO"

affectedPopulation(fireball) ==
    RMul(RMul(PI, RPow(RMul(fireball, RInt(2)), 2, 1)), RInt(200))

evacuationCost(population) == RMul(population, RInt(500))

infrastructureCost(energy) == RMul(energy, RSci(1, 9))

\* Math.floor(population * n / d)
FloorOf(population, n, d) == RFloor(RMul(population, RRat(n, d)))

directZone(crater, population, airburst) ==
    [radius |-> RDiv(crater, RInt(2)),
     population |-> 0,
     vessels |-> FloorOf(population, 1, 10000),
     description |-> IF airburst THEN "Explosao atmosferica" ELSE "Cratera de impacto"]

tsunamiZone(targetType, fireball, population) ==
    IF targetType = "oceano"
    THEN [radius |-> RMul(fireball, RRat(8, 10)),
          population |-> FloorOf(population, 3, 10),
          height |-> <<RFloor(RMul(fireball, RInt(2))), RFloor(RMul(fireball, RInt(3)))>>,
          municipalities |-> <<[name |-> "Zona Costeira",
                                population |-> FloorOf(population, 2, 10)]>>]
    ELSE [radius |-> RMul(fireball, RRat(5, 10)),
          population |-> FloorOf(population, 1, 10),
          height |-> <<>>,
          municipalities |-> <<>>]

moderateZone(fireball, population) ==
    [radius |-> RMul(fireball, RRat(15, 10)),
     population |-> FloorOf(population, 6, 10)]

shockwaveZone(fireball, population) ==
    [radius |-> RMul(fireball, RInt(5)),
     population |-> FloorOf(population, 3, 1)]

seismicZone(fireball, population) ==
    [radius |-> RMul(fireball, RInt(10)),
     population |-> FloorOf(population, 8, 1)]

humanitarian(population) ==
    [totalAffected |-> FloorOf(population, 4, 1),
     mandatoryEvacuation |-> FloorOf(population, 8, 10),
     recommendedEvacuation |-> FloorOf(population, 15, 10),
     monitoring |-> FloorOf(population, 17, 10)]

\* mutant of costs: the total leaves out part of the military component
costsTotalShort(population, energy) ==
    [operational |->
        [evacuation |-> evacuationCost(population),
         shelters |-> RMul(evacuationCost(population), RRat(8, 10)),
         hospitals |-> RMul(evacuationCost(population), RRat(3, 10)),
         military |-> RMul(evacuationCost(population), RRat(4, 10)),
         total |-> RMul(evacuationCost(population), RRat(24, 10))],
     damagesAvoided |->
        [livesSaved |-> FloorOf(population, 1, 10),
         infrastructure |-> infrastructureCost(energy),
         economy |-> RMul(infrastructureCost(energy), RRat(6, 10))],
     roi |-> RRat(42, 10)]

costs(population, energy) ==
    [operational |->
        [evacuation |-> evacuationCost(population),
         shelters |-> RMul(evacuationCost(population), RRat(8, 10)),
         hospitals |-> RMul(evacuationCost(population), RRat(3, 10)),
         military |-> RMul(evacuationCost(population), RRat(4, 10)),
         total |-> RMul(evacuationCost(population), RRat(25, 10))],
     damagesAvoided |->
        [livesSaved |-> FloorOf(population, 1, 10),
         infrastructure |-> infrastructureCost(energy),
         economy |-> RMul(infrastructureCost(energy), RRat(6, 10))],
     roi |-> RRat(42, 10)]

\* mutant of timeline: the assessment entry placed before the impact
timelineAssessmentFirst ==
    << [time |-> <<"T", "-", "2", "4", "h">>, action |-> "Evacuacao concluida (95%)", status |-> "target"],
       [time |-> <<"T", "+", "1", "h">>, action |-> "Avaliacao inicial de danos", status |-> "yellow"],
       [time |-> <<"T", "-", "0">>, action |-> "IMPACTO", status |-> "red"] >>

\* a time label is the sequence of its characters
timeline ==
    << [time |-> <<"T", "-", "1", "6", "8", "h">>, action |-> "Relatorio cientifico publicado", status |-> "done"],
       [time |-> <<"T", "-", "1", "4", "4", "h">>, action |-> "Ativacao de protocolos emergenciais", status |-> "target"],
       [time |-> <<"T", "-", "1", "2", "0", "h">>, action |-> "Inicio da evacuacao voluntaria", status |-> "target"],
       [time |-> <<"T", "-", "7", "2", "h">>, action |-> "Evacuacao obrigatoria anunciada", status |-> "target"],
       [time |-> <<"T", "-", "4", "8", "h">>, action |-> "70% da populacao evacuada", status |-> "target"],
       [time |-> <<"T", "-", "2", "4", "h">>, action |-> "Evacuacao concluida (95%)", status |-> "target"],
       [time |-> <<"T", "-", "0">>, action |-> "IMPACTO", status |-> "red"],
       [time |-> <<"T", "+", "1", "h">>, action |-> "Avaliacao inicial de danos", status |-> "yellow"],
       [time |-> <<"T", "+", "2", "4", "h">>, action |-> "Inicio das operacoes de resgate", status |-> "yellow"] >>

\* GovernmentDashboard: impactData.timeline
impactDataTimeline ==
    << [time |-> <<"T", "-", "1", "6", "8", "h">>, action |-> "Relatorio publicado", status |-> "completed"],
       [time |-> <<"T", "-", "1", "4", "4", "h">>, action |-> "Decreto de Estado de Emergencia", status |-> "pending"],
       [time |-> <<"T", "-", "1", "2", "0", "h">>, action |-> "Evacuacao obrigatoria anunciada", status |-> "pending"],
       [time |-> <<"T", "-", "7", "2", "h">>, action |-> "70% da populacao evacuada", status |-> "pending"],
       [time |-> <<"T", "-", "4", "8", "h">>, action |-> "90% da populacao evacuada", status |-> "pending"],
       [time |-> <<"T", "-", "2", "4", "h">>, action |-> "Evacuacao concluida (95%)", status |-> "pending"],
       [time |-> <<"T", "-", "0">>, action |-> "IMPACTO", status |-> "critical"] >>

\* the time label's signed hour offset: "T-168h" is -168, "T-0" is 0, "T+24h" is 24
DigitValue(c) ==
    CASE c = "0" -> 0 [] c = "1" -> 1 [] c = "2" -> 2 [] c = "3" -> 3 [] c = "4" -> 4
      [] c = "5" -> 5 [] c = "6" -> 6 [] c = "7" -> 7 [] c = "8" -> 8 [] c = "9" -> 9

RECURSIVE ParseDigits(_, _, _)
ParseDigits(time, i, acc) ==
    IF i > Len(time) \/ time[i] = "h" THEN acc
    ELSE ParseDigits(time, i + 1, 10 * acc + DigitValue(time[i]))

TimeOffset(time) ==
    IF time[2] = "-" THEN 0 - ParseDigits(time, 3, 0) ELSE ParseDigits(time, 3, 0)

asteroidSection(sd, ad, t) ==
    [fromCatalog |-> ad # NULL,
     diameter |-> ReportDiameter(sd),
     velocity |-> ReportVelocity(sd),
     angle |-> ReportAngle(sd),
     impactDate |-> t + 7,
     localTime |-> t]

impactSection(diameter, velocity, angle, targetType) ==
    LET energy == energyMegatons(diameter, velocity)
    IN  [energy |-> energy,
         seismic |-> seismicMagnitude(energy),
         crater |-> craterDiameter(energy, angle),
         fireball |-> fireballRadius(energy),
         shockwave |-> shockwaveIntensity(energy),
         winds |-> peakWinds(energy),
         type |-> impactType(diameter, velocity),
         targetType |-> targetType]

zonesSection(crater, fireball, population, airburst, targetType) ==
    [direct |-> directZone(crater, population, airburst),
     tsunami |-> tsunamiZone(targetType, fireball, population),
     moderate |-> moderateZone(fireball, population),
     shockwave |-> shockwaveZone(fireball, population),
     seismic |-> seismicZone(fireball, population)]

\* mutant of generateReportData: the affected population grows with the wall clock
generateReportDataAtClock(sd, ad, t) ==
    LET diameter   == ReportDiameter(sd)
        velocity   == ReportVelocity(sd)
        impact     == impactSection(diameter, velocity, ReportAngle(sd), ReportTargetType(sd))
        population == RMul(affectedPopulation(impact.fireball), RInt(t + 1))
    IN  [asteroid |-> asteroidSection(sd, ad, t),
         impact |-> impact,
         zones |-> zonesSection(impact.crater, impact.fireball, population,
                                isAirburst(diameter, velocity), ReportTargetType(sd)),
         humanitarian |-> humanitarian(population),
         costs |-> costs(population, impact.energy),
         timeline |-> timeline]

\* the report built from the props captured by the timer, at wall-clock time t
generateReportData(sd, ad, t) ==
    LET diameter   == ReportDiameter(sd)
        velocity   == ReportVelocity(sd)
        impact     == impactSection(diameter, velocity, ReportAngle(sd), ReportTargetType(sd))
        population == affectedPopulation(impact.fireball)
    IN  [asteroid |-> asteroidSection(sd, ad, t),
         impact |-> impact,
         zones |-> zonesSection(impact.crater, impact.fireball, population,
                                isAirburst(diameter, velocity), ReportTargetType(sd)),
         humanitarian |-> humanitarian(population),
         costs |-> costs(population, impact.energy),
         timeline |-> timeline]

\* a report without its time-stamped and catalog metadata
ReportCore(r) ==
    [parameters |-> [diameter |-> r.asteroid.diameter, velocity |-> r.asteroid.velocity,
                     angle |-> r.asteroid.angle, targetType |-> r.impact.targetType],
     impact |-> r.impact, zones |-> r.zones, humanitarian |-> r.humanitarian,
     costs |-> r.costs, timeline |-> r.timeline]

----------------------------------------------------------------------------
(* AsteroidDashboard.runSimulation: the local fallback result *)

FallbackImpactType(diameter) == IF diameter <= 150 THEN "AIRBURST" ELSE "IMPACTO DIRETO"

FallbackData(form, t) ==
    [impact_energy_mt |-> RMul(RInt(form.diameter_m), RRat(1, 10)),
     seismic_magnitude |-> LevelAdd(RLog10(RInt(form.diameter_m)), LevelOf(2)),
     crater_diameter_km |-> RDiv(RInt(form.diameter_m), RInt(1000)),
     fireball_radius_km |-> RDiv(RInt(form.diameter_m), RInt(500)),
     shockwave_intensity_db |-> LevelOf(120) + LevelOf(form.velocity_kms * 2),
     peak_winds_kmh |-> RMul(RInt(form.velocity_kms), RInt(10)),
     impact_type |-> FallbackImpactType(form.diameter_m),
     timestamp |-> t]

----------------------------------------------------------------------------
(* AsteroidDashboard.runSimulation: the backend result mapped to simulationData *)

\* data.a?.b || 0 for a magnitude
MagOr0(data, a, b) ==
    IF a \in DOMAIN data /\ b \in DOMAIN data[a] THEN data[a][b] ELSE RZero

\* data.a?.b || 0 for a level
LevelOr0(data, a, b) ==
    IF a \in DOMAIN data /\ b \in DOMAIN data[a] THEN data[a][b] ELSE 0

\* data.cratera?.is_airburst ? 'AIRBURST' : 'IMPACTO DIRETO'
MappedImpactType(data) ==
    IF "cratera" \in DOMAIN data /\ "is_airburst" \in DOMAIN data.cratera
       /\ data.cratera.is_airburst
    THEN "AIRBURST" ELSE "IMPACTO DIRETO"

MappedData(data, t) ==
    [impact_energy_mt |-> MagOr0(data, "energia", "equivalente_tnt_megatons"),
     seismic_magnitude |-> LevelOr0(data, "terremoto", "magnitude_richter"),
     crater_diameter_km |-> MagOr0(data, "cratera", "diametro_final_km"),
     fireball_radius_km |-> MagOr0(data, "fireball", "raio_queimadura_3_grau_km"),
     shockwave_intensity_db |-> LevelOr0(data, "onda_de_choque_e_vento", "nivel_som_1km_db"),
     peak_winds_kmh |-> RMul(MagOr0(data, "onda_de_choque_e_vento", "pico_vento_ms"),
                             RRat(36, 10)),
     impact_type |-> MappedImpactType(data),
     timestamp |-> t]

\* handleAsteroidSimulationData: the same mapping, with asteroid_info
MappedNeoData(analysis, t) ==
    [impact_energy_mt |-> MagOr0(analysis.impact_simulation, "energia", "equivalente_tnt_megatons"),
     seismic_magnitude |-> LevelOr0(analysis.impact_simulation, "terremoto", "magnitude_richter"),
     crater_diameter_km |-> MagOr0(analysis.impact_simulation, "cratera", "diametro_final_km"),
     fireball_radius_km |-> MagOr0(analysis.impact_simulation, "fireball", "raio_queimadura_3_grau_km"),
     shockwave_intensity_db |->
         LevelOr0(analysis.impact_simulation, "onda_de_choque_e_vento", "nivel_som_1km_db"),
     peak_winds_kmh |->
         RMul(MagOr0(analysis.impact_simulation, "onda_de_choque_e_vento", "pico_vento_ms"),
              RRat(36, 10)),
     impact_type |-> MappedImpactType(analysis.impact_simulation),
     timestamp |-> t,
     asteroid_info |-> analysis.asteroid_info]

----------------------------------------------------------------------------
(* Inputs *)

\* the parameters the report generator and the fallback are applied to in ReportSpec
Diameters == {50 * k : k \in 0..MaxDiameterK}
Velocities == {1} \cup {17 * k : k \in 0..MaxVelocityK}
Angles == {0, 30, 90}
TargetTypes == {"solo", "rocha", "oceano"}

ImpactParameters ==
    [diameter_m : Diameters, velocity_kms : Velocities,
     impact_angle_deg : Angles, target_type : TargetTypes]

\* what the user types into the diameter input (parseFloat(value) || 0: an emptied
\* input gives 0); the other inputs keep their values
FormDiameters == {0, 100}

\* what the user types into the latitude input (parseFloat(value) || 0)
FormLatitudes == {0}

\* e.latlng of the clicks on the map
MapClicks == {[lat |-> 100000, lng |-> 200000]}

\* e.latlng of clicks at two places of the map
RapidClicks == {[lat |-> 100000, lng |-> 200000], [lat |-> 300000, lng |-> 400000]}

\* the arrays AIRouteOptimizer hands to onRoutesUpdate
AIRouteData ==
    { <<[route_coordinates |-> <<>>, total_distance_km |-> 5]>>,
      <<[from |-> "A", distance |-> 3]>>,
      <<[safety_score |-> 9, distance_from_impact_km |-> 7]>>,
      <<>> }

\* the catalog entries NEOAsteroidSearch can load
Asteroids == {[id |-> "2000433", name |-> "433 Eros", diameter_m |-> 150]}

\* the bodies the backend answers /simular and /neo/<id>/impact-analysis with
BackendData ==
    { [energia |-> [equivalente_tnt_megatons |-> RInt(12)],
       terremoto |-> [magnitude_richter |-> LevelOf(6)],
       cratera |-> [diametro_final_km |-> RInt(2), is_airburst |-> FALSE],
       fireball |-> [raio_queimadura_3_grau_km |-> RInt(4)],
       onda_de_choque_e_vento |-> [nivel_som_1km_db |-> LevelOf(150),
                                   pico_vento_ms |-> RInt(60)]],
      [cratera |-> [is_airburst |-> TRUE]] }

----------------------------------------------------------------------------
(* ScientificReport: mounting, the effect and the timer *)

\* a setSimulationData / setSelectedAsteroid re-renders a mounted report with new
\* props: useEffect([simulationData, asteroidData]) calls generateReportData
EffectRuns(sd) == showScientificReport /\ sd # NULL
EffectTimers(sd, ad) ==
    IF EffectRuns(sd)
    THEN Append(reportTimers, [simulationData |-> sd, asteroidData |-> ad])
    ELSE reportTimers
EffectGenerating(sd) == IF EffectRuns(sd) THEN TRUE ELSE isGenerating
CanQueue == ~showScientificReport \/ Len(reportTimers) < MaxTimers

\* the setTimeout callback of generateReportData
ReportTimerFires ==
    /\ reportTimers # <<>>
    /\ LET job == Head(reportTimers)
       IN  reportData' = generateReportData(job.simulationData, job.asteroidData, now)
    /\ prevReport' = IF reportData = NULL THEN prevReport ELSE reportData
    /\ isGenerating' = FALSE
    /\ reportTimers' = Tail(reportTimers)
    /\ UNCHANGED <<dashboardVars, selectedAsteroid, simulationData, simParams,
                   fallbackData, now>>

Tick ==
    /\ now < MaxClock
    /\ now' = now + 1
    /\ UNCHANGED <<dashboardVars, selectedAsteroid, simulationData, reportData,
                   isGenerating, reportTimers, simParams, prevReport, fallbackData>>

----------------------------------------------------------------------------
(* CosmosSentinelAPI.request *)

\* the calls that can be in progress at once
RequestIds == 1..MaxRequests

Endpoints == {"/simular", "/health", "/neo/2000433/impact-analysis"}

TimeoutMessage == "Timeout: A requisicao demorou muito para responder"

\* a slot with no call in it; phase is where the call stands ("rejected" would be
\* a promise that rejected), outcome what happened to its fetch
IdleRequest ==
    [phase |-> "idle", endpoint |-> "", fetches |-> 0, timeoutArmed |-> FALSE,
     outcome |-> "", result |-> NULL]

\* return { success: false, error, data: null }
Failure(error) == [success |-> FALSE, error |-> error, data |-> NULL]

\* a call leaves the components as they are until its caller takes the result
ComponentsUnchanged ==
    UNCHANGED <<simulationForm, simulationMode, neoSelected, selectedAsteroid,
                simulationData, isMapLocked, loading, isSimulating, pendingSimulation,
                showScientificReport, reportData, isGenerating, reportTimers, simParams,
                prevReport, fallbackData, now, mapVars, evacuationVars, aiVars>>

\* request(endpoint, options): the AbortController, the timeout timer, the fetch
RequestStart(i) ==
    /\ requests[i].phase = "idle"
    /\ \E endpoint \in Endpoints :
          requests' = [requests EXCEPT ![i] =
              [phase |-> "fetching", endpoint |-> endpoint, fetches |-> 1,
               timeoutArmed |-> TRUE, outcome |-> "", result |-> NULL]]
    /\ ComponentsUnchanged

\* fetch resolved: clearTimeout; a non-2xx answer is thrown and caught
FetchResponds(i) ==
    /\ requests[i].phase = "fetching"
    /\ \E ok \in BOOLEAN :
          requests' = [requests EXCEPT ![i] =
              IF ok
              THEN [@ EXCEPT !.phase = "parsing", !.timeoutArmed = FALSE]
              ELSE [@ EXCEPT !.phase = "settled", !.timeoutArmed = FALSE,
                             !.outcome = "non-2xx",
                             !.result = Failure("HTTP 500: Internal Server Error")]]
    /\ ComponentsUnchanged

\* mutant of FetchFails: the catch block throws the error again, as the one of
\* checkBackendHealth does
FetchFailsRethrown(i) ==
    /\ requests[i].phase = "fetching"
    /\ requests' = [requests EXCEPT ![i] =
          [@ EXCEPT !.phase = "rejected", !.timeoutArmed = FALSE,
                    !.outcome = "network"]]
    /\ ComponentsUnchanged

\* fetch rejected (no connection): the catch block
FetchFails(i) ==
    /\ requests[i].phase = "fetching"
    /\ requests' = [requests EXCEPT ![i] =
          [@ EXCEPT !.phase = "settled", !.timeoutArmed = FALSE,
                    !.outcome = "network",
                    !.result = Failure("Failed to fetch")]]
    /\ ComponentsUnchanged

\* the timeout timer fired: controller.abort(), fetch rejects with an AbortError
TimeoutAborts(i) ==
    /\ requests[i].phase = "fetching"
    /\ requests[i].timeoutArmed
    /\ requests' = [requests EXCEPT ![i] =
          [@ EXCEPT !.phase = "settled", !.timeoutArmed = FALSE,
                    !.outcome = "timeout",
                    !.result = Failure(TimeoutMessage)]]
    /\ ComponentsUnchanged

\* response.json() resolved
BodyParsed(i) ==
    /\ requests[i].phase = "parsing"
    /\ requests' = [requests EXCEPT ![i] =
          [@ EXCEPT !.phase = "settled", !.outcome = "2xx",
                    !.result = [success |-> TRUE, error |-> "", data |-> requests[i].endpoint]]]
    /\ ComponentsUnchanged

\* response.json() rejected: the catch block
BodyUnparsable(i) ==
    /\ requests[i].phase = "parsing"
    /\ requests' = [requests EXCEPT ![i] =
          [@ EXCEPT !.phase = "settled", !.outcome = "unparsable",
                    !.result = Failure("Unexpected token")]]
    /\ ComponentsUnchanged

\* the caller has taken the result
RequestReturns(i) ==
    /\ requests[i].phase = "settled"
    /\ requests' = [requests EXCEPT ![i] = IdleRequest]
    /\ ComponentsUnchanged

----------------------------------------------------------------------------
(* AsteroidDashboard *)

\* coordinates are in 1/10000 of a degree
DefaultForm ==
    [diameter_m |-> 100, velocity_kms |-> 35, impact_angle_deg |-> 24,
     target_type |-> "rocha", latitude |-> 0 - 37327, longitude |-> 0 - 385270]

InitialCenter == <<0 - 37327, 0 - 385270>>

\* useEffect([simulationForm.latitude, simulationForm.longitude]): setCenter
FormCenter(form) == <<form.latitude, form.longitude>>

\* generateZonesAndRoutes: dangerLevels
DangerLevels(radius) ==
    << [level |-> "critical", radius |-> RMul(radius, RRat(3, 10))],
       [level |-> "high", radius |-> RMul(radius, RRat(6, 10))],
       [level |-> "medium", radius |-> RMul(radius, RRat(9, 10))] >>

\* center displaced by safeRadius / 111 degrees towards a cardinal direction
Displaced(c, direction, safeRadius) ==
    [origin |-> c, direction |-> direction, degrees |-> RDiv(safeRadius, RInt(111))]

\* generateZonesAndRoutes: safeZonesData, for the center c of the closure
SafeZonesData(c, safeRadius) ==
    << [id |-> 1, name |-> "Abrigo Norte", position |-> Displaced(c, "N", safeRadius),
        capacity |-> 5000, distance |-> safeRadius, type |-> "shelter"],
       [id |-> 2, name |-> "Abrigo Sul", position |-> Displaced(c, "S", safeRadius),
        capacity |-> 3000, distance |-> safeRadius, type |-> "shelter"],
       [id |-> 3, name |-> "Zona Segura Leste", position |-> Displaced(c, "E", safeRadius),
        capacity |-> 8001, distance |-> safeRadius, type |-> "safe_zone"],
       [id |-> 4, name |-> "Zona Segura Oeste", position |-> Displaced(c, "W", safeRadius),
        capacity |-> 6000, distance |-> safeRadius, type |-> "safe_zone"] >>

IsShelter(zone) == zone.type = "shelter"

\* generateZonesAndRoutes: routes
Routes(c, zones) ==
    [i \in 1..Len(zones) |->
        [id |-> zones[i].id, name |-> zones[i].name, from |-> c,
         to |-> zones[i].position, distance |-> zones[i].distance,
         capacity |-> zones[i].capacity, status |-> "active"]]

\* generateZonesAndRoutes(data), called from a closure whose center is c
generateZonesAndRoutes(data, c) ==
    IF data.fireball_radius_km.zero
    THEN UNCHANGED <<dangerZones, safeZones, shelters, evacuationRoutes>>
    ELSE LET zones == SafeZonesData(c, RMul(data.fireball_radius_km, RInt(2)))
         IN  /\ dangerZones' = DangerLevels(data.fireball_radius_km)
             /\ safeZones' = zones
             /\ shelters' = SelectSeq(zones, IsShelter)
             /\ evacuationRoutes' = Routes(c, zones)

NewAlerts ==
    << [type |-> "impact", severity |-> "critical"],
       [type |-> "evacuation", severity |-> "high"],
       [type |-> "seismic", severity |-> "medium"] >>

\* [...newAlerts, ...prev].slice(0, 10)
FirstTen(list) == IF Len(list) > 10 THEN SubSeq(list, 1, 10) ELSE list

generateAlerts == alerts' = FirstTen(NewAlerts \o alerts)

Init ==
    /\ simulationForm = DefaultForm
    /\ simulationMode = "custom"
    /\ neoSelected = NULL
    /\ selectedAsteroid = NULL
    /\ simulationData = NULL
    /\ isMapLocked = FALSE
    /\ loading = FALSE
    /\ isSimulating = FALSE
    /\ pendingSimulation = <<>>
    /\ showScientificReport = FALSE
    /\ reportData = NULL
    /\ isGenerating = FALSE
    /\ reportTimers = <<>>
    /\ simParams = NULL
    /\ prevReport = NULL
    /\ fallbackData = NULL
    /\ now = 0
    /\ center = InitialCenter
    /\ mapClickFeedback = NULL
    /\ feedbackTimers = <<>>
    /\ dangerZones = <<>>
    /\ safeZones = <<>>
    /\ shelters = <<>>
    /\ evacuationRoutes = <<>>
    /\ optimalRoutes = <<>>
    /\ aiOptimizedRoutes = <<>>
    /\ alerts = <<>>
    /\ requests = [i \in RequestIds |-> IdleRequest]

\* the report modal covers the page: no control of the dashboard can be clicked
PageReachable == ~showScientificReport

\* mutant of MapClickResult: the lock is not looked at
MapClickResultUnlocked(e) ==
    [simulationForm |-> [simulationForm EXCEPT !.latitude = e.lat, !.longitude = e.lng],
     center |-> <<e.lat, e.lng>>,
     mapClickFeedback |-> [position |-> <<e.lat, e.lng>>, timestamp |-> now],
     feedbackTimers |-> Append(feedbackTimers, <<e.lat, e.lng>>)]

\* handleMapClick(e): what it leaves in the form, the center, the click marker and
\* the pending timers; a click on a locked map returns before touching them
MapClickResult(e) ==
    IF isMapLocked
    THEN [simulationForm |-> simulationForm, center |-> center,
          mapClickFeedback |-> mapClickFeedback, feedbackTimers |-> feedbackTimers]
    ELSE [simulationForm |-> [simulationForm EXCEPT !.latitude = e.lat, !.longitude = e.lng],
          center |-> <<e.lat, e.lng>>,
          mapClickFeedback |-> [position |-> <<e.lat, e.lng>>, timestamp |-> now],
          feedbackTimers |-> Append(feedbackTimers, <<e.lat, e.lng>>)]

\* the state updates of one call of handleMapClick(e)
MapClickApplied(e) ==
    /\ simulationForm' = MapClickResult(e).simulationForm
    /\ center' = MapClickResult(e).center
    /\ mapClickFeedback' = MapClickResult(e).mapClickFeedback
    /\ feedbackTimers' = MapClickResult(e).feedbackTimers
    /\ UNCHANGED <<simulationMode, neoSelected, selectedAsteroid, simulationData, isMapLocked,
                   loading, isSimulating, pendingSimulation, showScientificReport, reportData,
                   isGenerating, reportTimers, simParams, prevReport, fallbackData, now,
                   evacuationVars, aiVars,
                   requests>>

handleMapClick ==
    /\ PageReachable
    /\ Len(feedbackTimers) < MaxClicks
    /\ \E e \in MapClicks : MapClickApplied(e)

\* handleMapClick for clicks that follow each other within the 2 seconds of the
\* marker: up to MaxOverlap timers are pending at once
handleMapClicks ==
    /\ PageReachable
    /\ Len(feedbackTimers) < MaxOverlap
    /\ \E e \in RapidClicks : MapClickApplied(e)

\* the setTimeout callback of handleMapClick: setMapClickFeedback(null)
FeedbackTimerFires ==
    /\ feedbackTimers # <<>>
    /\ feedbackTimers' = Tail(feedbackTimers)
    /\ mapClickFeedback' = NULL
    /\ UNCHANGED <<simulationForm, simulationMode, neoSelected, selectedAsteroid,
                   simulationData, isMapLocked, loading, isSimulating, pendingSimulation,
                   showScientificReport, reportData, isGenerating, reportTimers, simParams,
                   prevReport, fallbackData, now, center,
                   evacuationVars, aiVars,
                   requests>>

\* onChange of the diameter input (rendered in custom mode only)
EditForm ==
    /\ PageReachable
    /\ simulationMode = "custom"
    /\ \E d \in FormDiameters \ {simulationForm.diameter_m} :
          simulationForm' = [simulationForm EXCEPT !.diameter_m = d]
    /\ UNCHANGED <<simulationMode, neoSelected, selectedAsteroid, simulationData, isMapLocked,
                   loading, isSimulating, pendingSimulation, showScientificReport, reportData,
                   isGenerating, reportTimers, simParams, prevReport, fallbackData, now,
                   mapVars, evacuationVars, aiVars,
                   requests>>

\* onChange of the latitude input, and the effect that follows the form
EditPosition ==
    /\ PageReachable
    /\ simulationMode = "custom"
    /\ \E lat \in FormLatitudes \ {simulationForm.latitude} :
          /\ simulationForm' = [simulationForm EXCEPT !.latitude = lat]
          /\ center' = FormCenter(simulationForm')
    /\ UNCHANGED <<simulationMode, neoSelected, selectedAsteroid, simulationData, isMapLocked,
                   loading, isSimulating, pendingSimulation, showScientificReport, reportData,
                   isGenerating, reportTimers, simParams, prevReport, fallbackData, now,
                   mapClickFeedback, feedbackTimers, evacuationVars, aiVars,
                   requests>>

\* mutant of SetSimulationMode: switching the mode releases the map
SetSimulationModeUnlocking ==
    /\ PageReachable
    /\ \E m \in {"custom", "neo"} :
          /\ m # simulationMode
          /\ simulationMode' = m
    /\ neoSelected' = NULL
    /\ isMapLocked' = FALSE
    /\ UNCHANGED <<simulationForm, selectedAsteroid, simulationData, loading,
                   isSimulating, pendingSimulation, showScientificReport, reportData,
                   isGenerating, reportTimers, simParams, prevReport, fallbackData, now,
                   mapVars, evacuationVars, aiVars,
                   requests>>

\* the mode buttons; NEOAsteroidSearch is mounted in "neo" mode only
SetSimulationMode ==
    /\ PageReachable
    /\ \E m \in {"custom", "neo"} :
          /\ m # simulationMode
          /\ simulationMode' = m
    /\ neoSelected' = NULL
    /\ UNCHANGED <<simulationForm, selectedAsteroid, simulationData, isMapLocked, loading,
                   isSimulating, pendingSimulation, showScientificReport, reportData,
                   isGenerating, reportTimers, simParams, prevReport, fallbackData, now,
                   mapVars, evacuationVars, aiVars,
                   requests>>

\* mutant of RunSimulation: setIsSimulating(true) and setLoading(true) are left out
RunSimulationUnflagged ==
    /\ PageReachable
    /\ simulationMode = "custom"
    /\ ~loading
    /\ ~(isSimulating \/ loading)
    /\ pendingSimulation' =
          Append(pendingSimulation, [form |-> simulationForm, center |-> center])
    /\ UNCHANGED <<simulationForm, simulationMode, neoSelected, selectedAsteroid,
                   simulationData, isMapLocked, showScientificReport, reportData,
                   isGenerating, reportTimers, simParams, prevReport, fallbackData, now,
                   mapVars, evacuationVars, aiVars, isSimulating, loading,
                   requests>>

\* runSimulation up to its await: the button is disabled while loading, and the
\* function returns at once while isSimulating or loading (React renders the
\* state set by a click before it delivers the next click)
RunSimulation ==
    /\ PageReachable
    /\ simulationMode = "custom"
    /\ ~loading
    /\ ~(isSimulating \/ loading)
    /\ isSimulating' = TRUE
    /\ loading' = TRUE
    /\ pendingSimulation' =
          Append(pendingSimulation, [form |-> simulationForm, center |-> center])
    /\ UNCHANGED <<simulationForm, simulationMode, neoSelected, selectedAsteroid,
                   simulationData, isMapLocked, showScientificReport, reportData,
                   isGenerating, reportTimers, simParams, prevReport, fallbackData, now,
                   mapVars, evacuationVars, aiVars,
                   requests>>

\* seq without its k-th element
Without(seq, k) == SubSeq(seq, 1, k - 1) \o SubSeq(seq, k + 1, Len(seq))

\* what every branch of the k-th runSimulation call in flight does after the
\* await, with result sd
SimulationDone(k, sd) ==
    /\ CanQueue
    /\ simulationData' = sd
    /\ generateZonesAndRoutes(sd, pendingSimulation[k].center)
    /\ generateAlerts
    /\ simParams' = pendingSimulation[k].form
    /\ isMapLocked' = TRUE
    /\ loading' = FALSE
    /\ isSimulating' = FALSE
    /\ pendingSimulation' = Without(pendingSimulation, k)
    /\ reportTimers' = EffectTimers(sd, selectedAsteroid)
    /\ isGenerating' = EffectGenerating(sd)
    /\ UNCHANGED <<simulationForm, simulationMode, neoSelected, selectedAsteroid,
                   showScientificReport, reportData, prevReport, fallbackData, now,
                   mapVars, aiVars,
                   requests>>

\* result.success && result.data
SimulationSuccess ==
    \E k \in DOMAIN pendingSimulation :
        \E data \in BackendData : SimulationDone(k, MappedData(data, now))

\* result.success is false (the else branch), or something in the try block threw
\* (the catch branch):
\* both build the same fallbackData from the form of the call
SimulationFallback ==
    \E k \in DOMAIN pendingSimulation :
        SimulationDone(k, FallbackData(pendingSimulation[k].form, now))

\* mutant of handleNewSimulation: the AI-optimized routes are kept
handleNewSimulationKeepingRoutes ==
    /\ PageReachable
    /\ isMapLocked
    /\ isMapLocked' = FALSE
    /\ simulationData' = NULL
    /\ simParams' = NULL
    /\ dangerZones' = <<>>
    /\ evacuationRoutes' = <<>>
    /\ shelters' = <<>>
    /\ safeZones' = <<>>
    /\ optimalRoutes' = <<>>
    /\ alerts' = <<>>
    /\ mapClickFeedback' = NULL
    /\ UNCHANGED <<simulationForm, simulationMode, neoSelected, selectedAsteroid, loading,
                   isSimulating, pendingSimulation, showScientificReport, reportData,
                   isGenerating, reportTimers, prevReport, fallbackData, now,
                   center, feedbackTimers, aiOptimizedRoutes,
                   requests>>

handleNewSimulation ==
    /\ PageReachable
    /\ isMapLocked
    /\ isMapLocked' = FALSE
    /\ simulationData' = NULL
    /\ simParams' = NULL
    /\ dangerZones' = <<>>
    /\ evacuationRoutes' = <<>>
    /\ shelters' = <<>>
    /\ safeZones' = <<>>
    /\ optimalRoutes' = <<>>
    /\ aiOptimizedRoutes' = <<>>
    /\ alerts' = <<>>
    /\ mapClickFeedback' = NULL
    /\ UNCHANGED <<simulationForm, simulationMode, neoSelected, selectedAsteroid, loading,
                   isSimulating, pendingSimulation, showScientificReport, reportData,
                   isGenerating, reportTimers, prevReport, fallbackData, now,
                   center, feedbackTimers,
                   requests>>

\* NEOAsteroidSearch.extractSimulationParameters
NeoSimulationParams(asteroid) ==
    [diameter_m |-> IF asteroid.diameter_m # 0 THEN asteroid.diameter_m ELSE 100,
     velocity_kms |-> 17, impact_angle_deg |-> 45, target_type |-> "rocha",
     latitude |-> 0 - 37327, longitude |-> 0 - 385270]

\* searchAsteroid found the asteroid: handleAsteroidSelected, then
\* handleAsteroidSimulationData with the extracted parameters (no impact_simulation),
\* and the effect that follows the form
NeoAsteroidFound ==
    /\ PageReachable
    /\ simulationMode = "neo"
    /\ CanQueue
    /\ \E asteroid \in Asteroids :
          /\ neoSelected' = asteroid
          /\ selectedAsteroid' = asteroid
          /\ simulationForm' = NeoSimulationParams(asteroid)
          /\ center' = FormCenter(NeoSimulationParams(asteroid))
          /\ reportTimers' = EffectTimers(simulationData, asteroid)
    /\ isGenerating' = EffectGenerating(simulationData)
    /\ UNCHANGED <<simulationMode, simulationData, isMapLocked, loading, isSimulating,
                   pendingSimulation, showScientificReport, reportData, simParams,
                   prevReport, fallbackData, now, mapClickFeedback, feedbackTimers, evacuationVars, aiVars,
                   requests>>

\* runImpactAnalysis, from the click to its successful answer:
\* handleAsteroidSimulationData with impact_simulation; the callback has empty
\* dependencies, so its generateZonesAndRoutes is the one of the first render
NeoImpactAnalysis ==
    /\ PageReachable
    /\ simulationMode = "neo"
    /\ neoSelected # NULL
    /\ CanQueue
    /\ \E data \in BackendData :
          LET analysis == [impact_simulation |-> data,
                           asteroid_info |-> [id |-> neoSelected.id, name |-> neoSelected.name]]
              sd == MappedNeoData(analysis, now)
          IN  /\ simulationData' = sd
              /\ generateZonesAndRoutes(sd, InitialCenter)
              /\ reportTimers' = EffectTimers(sd, selectedAsteroid)
              /\ isGenerating' = EffectGenerating(sd)
    /\ generateAlerts
    /\ simParams' = NeoSimulationParams(neoSelected)
    /\ UNCHANGED <<simulationForm, simulationMode, neoSelected, selectedAsteroid, isMapLocked,
                   loading, isSimulating, pendingSimulation, showScientificReport, reportData,
                   prevReport, fallbackData, now, mapVars, aiVars,
                   requests>>

\* handleAIRoutesUpdate(data): AIRouteOptimizer, mounted while simulationData is
\* set, hands over the answer to one of its requests
handleAIRoutesUpdate ==
    /\ PageReachable
    /\ simulationData # NULL
    /\ \E data \in AIRouteData :
          IF Len(data) > 0 /\ "total_distance_km" \in DOMAIN data[1]
          THEN /\ optimalRoutes' = data
               /\ UNCHANGED <<aiOptimizedRoutes, safeZones>>
          ELSE IF Len(data) > 0 /\ "distance" \in DOMAIN data[1]
          THEN /\ aiOptimizedRoutes' = data
               /\ UNCHANGED <<optimalRoutes, safeZones>>
          ELSE IF Len(data) > 0 /\ "safety_score" \in DOMAIN data[1]
          THEN /\ safeZones' = data
               /\ UNCHANGED <<optimalRoutes, aiOptimizedRoutes>>
          ELSE UNCHANGED <<optimalRoutes, aiOptimizedRoutes, safeZones>>
    /\ UNCHANGED <<simulationForm, simulationMode, neoSelected, selectedAsteroid,
                   simulationData, isMapLocked, loading, isSimulating, pendingSimulation,
                   showScientificReport, reportData, isGenerating, reportTimers, simParams,
                   prevReport, fallbackData, now, mapVars, dangerZones, shelters,
                   evacuationRoutes, alerts,
                   requests>>

\* the report button: ScientificReport mounts and its effect starts a generation
OpenReport ==
    /\ ~showScientificReport
    /\ simulationData # NULL
    /\ showScientificReport' = TRUE
    /\ reportData' = NULL
    /\ isGenerating' = TRUE
    /\ reportTimers' = <<[simulationData |-> simulationData, asteroidData |-> selectedAsteroid]>>
    /\ UNCHANGED <<simulationForm, simulationMode, neoSelected, selectedAsteroid,
                   simulationData, isMapLocked, loading, isSimulating, pendingSimulation,
                   simParams, prevReport, fallbackData, now, mapVars,
                   evacuationVars, aiVars,
                   requests>>

\* onClose: ScientificReport unmounts; its state is gone and its timers set nothing
CloseReport ==
    /\ showScientificReport
    /\ showScientificReport' = FALSE
    /\ reportData' = NULL
    /\ isGenerating' = FALSE
    /\ reportTimers' = <<>>
    /\ UNCHANGED <<simulationForm, simulationMode, neoSelected, selectedAsteroid,
                   simulationData, isMapLocked, loading, isSimulating, pendingSimulation,
                   simParams, prevReport, fallbackData, now, mapVars,
                   evacuationVars, aiVars,
                   requests>>

\* the dashboard and its report modal
Next ==
    \/ EditForm
    \/ SetSimulationMode
    \/ RunSimulation
    \/ SimulationSuccess
    \/ SimulationFallback
    \/ handleNewSimulation
    \/ NeoAsteroidFound
    \/ NeoImpactAnalysis
    \/ OpenReport
    \/ CloseReport
    \/ ReportTimerFires
    \/ Tick

Spec == Init /\ [][Next]_vars

\* the dashboard with the report modal closed: the map, the impact position,
\* the simulations, the NEO search and the route optimizer
MapNext ==
    \/ EditPosition
    \/ handleMapClick
    \/ FeedbackTimerFires
    \/ SetSimulationMode
    \/ RunSimulation
    \/ SimulationSuccess
    \/ SimulationFallback
    \/ handleNewSimulation
    \/ NeoAsteroidFound
    \/ NeoImpactAnalysis
    \/ handleAIRoutesUpdate

MapSpec == Init /\ [][MapNext]_vars

\* the map under quick clicks, before any simulation locks it
ClickNext ==
    \/ handleMapClicks
    \/ FeedbackTimerFires
    \/ EditPosition
    \/ EditForm
    \/ SetSimulationMode
    \/ Tick

ClickSpec == Init /\ [][ClickNext]_vars

\* the API service alone: its calls, whoever makes them
RequestNext ==
    \E i \in RequestIds :
        \/ RequestStart(i)
        \/ FetchResponds(i)
        \/ FetchFails(i)
        \/ TimeoutAborts(i)
        \/ BodyParsed(i)
        \/ BodyUnparsable(i)
        \/ RequestReturns(i)

RequestSpec == Init /\ [][RequestNext]_vars

----------------------------------------------------------------------------
(* ReportSpec: ScientificReport and the local fallback applied to impact        *)
(* parameters drawn from ImpactParameters: the report is mounted with props     *)
(* that carry the parameters of the simulation.                                 *)

ReportInit ==
    /\ simParams \in ImpactParameters
    /\ simulationData = simParams
    /\ selectedAsteroid = NULL
    /\ showScientificReport = TRUE
    /\ reportData = NULL
    /\ isGenerating = TRUE
    /\ reportTimers = <<[simulationData |-> simParams, asteroidData |-> NULL]>>
    /\ prevReport = NULL
    /\ fallbackData = NULL
    /\ now = 0
    /\ simulationForm = DefaultForm
    /\ simulationMode = "custom"
    /\ neoSelected = NULL
    /\ isMapLocked = FALSE
    /\ loading = FALSE
    /\ isSimulating = FALSE
    /\ pendingSimulation = <<>>
    /\ center = InitialCenter
    /\ mapClickFeedback = NULL
    /\ feedbackTimers = <<>>
    /\ dangerZones = <<>>
    /\ safeZones = <<>>
    /\ shelters = <<>>
    /\ evacuationRoutes = <<>>
    /\ optimalRoutes = <<>>
    /\ aiOptimizedRoutes = <<>>
    /\ alerts = <<>>
    /\ requests = [i \in RequestIds |-> IdleRequest]

\* the parent hands the mounted report another asteroidData: the effect runs again
ReportPropsEffect ==
    /\ CanQueue
    /\ \E ad \in ([id : {"2000433"}, name : {"433 Eros"}] \cup {NULL}) \ {selectedAsteroid} :
          /\ selectedAsteroid' = ad
          /\ reportTimers' = EffectTimers(simulationData, ad)
    /\ isGenerating' = EffectGenerating(simulationData)
    /\ UNCHANGED <<dashboardVars, simulationData, reportData, simParams, prevReport,
                   fallbackData, now>>

\* the fallback branch of runSimulation, for the same parameters
LocalFallback ==
    /\ fallbackData = NULL
    /\ fallbackData' = FallbackData(simParams, now)
    /\ UNCHANGED <<dashboardVars, selectedAsteroid, simulationData, reportData,
                   isGenerating, reportTimers, simParams, prevReport, now>>

ReportNext == ReportPropsEffect \/ ReportTimerFires \/ LocalFallback \/ Tick

ReportSpec == ReportInit /\ [][ReportNext]_vars

----------------------------------------------------------------------------
(* Properties *)

\* the report on screen is the one generated from the current simulationData
ReportSettled == showScientificReport /\ reportData # NULL /\ reportTimers = <<>>

\* C1: the report of an executed simulation (backend result, fallback result or
\* NEO analysis) shows and computes with the diameter, velocity, impact angle and
\* terrain type that were used for that simulation, never default values.
C1_ReportUsesSimulationParameters ==
    (ReportSettled /\ simParams # NULL) =>
        /\ reportData.asteroid.diameter = simParams.diameter_m
        /\ reportData.asteroid.velocity = simParams.velocity_kms
        /\ reportData.asteroid.angle = simParams.impact_angle_deg
        /\ reportData.impact.targetType = simParams.target_type

ValidParameters(params) ==
    /\ params.diameter_m > 0
    /\ params.velocity_kms > 0
    /\ params.impact_angle_deg > 0
    /\ params.impact_angle_deg <= 90

\* C2: for every valid input the zone radii of the report are strictly increasing
\* in the order direct < moderate < shockwave < seismic.
C2_ZoneRadiiIncreasing ==
    (reportData # NULL /\ ValidParameters(simParams)) =>
        /\ RLess(reportData.zones.direct.radius, reportData.zones.moderate.radius)
        /\ RLess(reportData.zones.moderate.radius, reportData.zones.shockwave.radius)
        /\ RLess(reportData.zones.shockwave.radius, reportData.zones.seismic.radius)

\* C3: the report has a tsunami zone (a tsunami radius and a tsunami population)
\* if and only if the target type is ocean; for an ocean target both are nonzero.
C3_TsunamiIffOcean ==
    (reportData # NULL /\ ValidParameters(simParams)) =>
        IF reportData.impact.targetType = "oceano"
        THEN /\ ~reportData.zones.tsunami.radius.zero
             /\ reportData.zones.tsunami.population > 0
        ELSE /\ reportData.zones.tsunami.radius.zero
             /\ reportData.zones.tsunami.population = 0

\* C4: the reported crater diameter is 0 whenever the impact is classified as an
\* airburst, and nonzero for a surface impact with angle > 0.
C4_CraterZeroIffAirburst ==
    (reportData # NULL /\ ValidParameters(simParams)) =>
        IF reportData.impact.type = "AIRBURST ATMOSFERICO"
        THEN reportData.impact.crater.zero
        ELSE reportData.asteroid.angle > 0 => ~reportData.impact.crater.zero

\* C5: the report generator and the fallback of the dashboard give the same
\* airburst-versus-direct-impact verdict for every diameter and velocity.
C5_SingleAirburstPolicy ==
    (reportData # NULL /\ fallbackData # NULL /\ ValidParameters(simParams)) =>
        ((reportData.impact.type = "AIRBURST ATMOSFERICO")
            <=> (fallbackData.impact_type = "AIRBURST"))

\* C6: a request with diameter_m <= 0 or velocity_kms <= 0 is rejected: it
\* produces no simulation result and no report.
C6_InvalidParametersRejected ==
    (simParams # NULL /\ (simParams.diameter_m <= 0 \/ simParams.velocity_kms <= 0)) =>
        (simulationData = NULL /\ reportData = NULL)

\* the avoided-damage total: the two monetary components of damagesAvoided
AvoidedDamageTotal(report) ==
    RAdd(report.costs.damagesAvoided.infrastructure, report.costs.damagesAvoided.economy)

\* C7: the ROI of the report is null when the operational total is 0, and
\* otherwise the avoided-damage total divided by the operational total.
C7_RoiIsRatio ==
    (reportData # NULL /\ ValidParameters(simParams)) =>
        IF reportData.costs.operational.total.zero
        THEN reportData.costs.roi = NULL
        ELSE reportData.costs.roi
                = RDiv(AvoidedDamageTotal(reportData), reportData.costs.operational.total)

C9_EnergyStrictlyIncreasing ==
    (reportData # NULL /\ ValidParameters(simParams)) =>
        /\ \A d \in Diameters :
              d > simParams.diameter_m =>
                  RLess(reportData.impact.energy, energyMegatons(d, simParams.velocity_kms))
        /\ \A v \in Velocities :
              v > simParams.velocity_kms =>
                  RLess(reportData.impact.energy, energyMegatons(simParams.diameter_m, v))

\* a report for parameters that have both a larger diameter and a larger velocity
C9_Witness ==
    /\ reportData # NULL
    /\ ValidParameters(simParams)
    /\ \E d \in Diameters : d > simParams.diameter_m
    /\ \E v \in Velocities : v > simParams.velocity_kms

\* sorted ascending by hour offset, with exactly one IMPACTO entry, at offset 0
TimelineWellFormed(entries) ==
    /\ \A i \in 1..(Len(entries) - 1) :
          TimeOffset(entries[i].time) < TimeOffset(entries[i + 1].time)
    /\ Cardinality({i \in 1..Len(entries) : entries[i].action = "IMPACTO"}) = 1
    /\ \A i \in 1..Len(entries) :
          entries[i].action = "IMPACTO" => TimeOffset(entries[i].time) = 0

\* C10: every generated timeline is sorted ascending by hour offset and has
\* exactly one impact entry, at offset 0, whatever the input and the classification.
C10_TimelineSorted ==
    /\ reportData # NULL => TimelineWellFormed(reportData.timeline)
    /\ TimelineWellFormed(impactDataTimeline)

\* a report of an airburst has been generated
C10_Witness ==
    /\ reportData # NULL
    /\ reportData.impact.type = "AIRBURST ATMOSFERICO"
    /\ Len(reportData.timeline) = 9

\* C11: the population tiers follow the zones: mandatory evacuation is the
\* population of the zones at or inside the moderate zone (the moderate zone alone,
\* or with the direct and tsunami zones inside it), recommended evacuation is the
\* shockwave zone's population and monitoring is the seismic zone's population.
C11_TiersFollowZones ==
    (reportData # NULL /\ ValidParameters(simParams)) =>
        /\ reportData.humanitarian.mandatoryEvacuation
              \in {reportData.zones.moderate.population,
                   reportData.zones.direct.population
                       + reportData.zones.tsunami.population
                       + reportData.zones.moderate.population}
        /\ reportData.humanitarian.recommendedEvacuation
              = reportData.zones.shockwave.population
        /\ reportData.humanitarian.monitoring = reportData.zones.seismic.population

\* equal to three significant digits (sums are taken to four)
RNear(a, b) ==
    /\ a.zero = b.zero
    /\ ~a.zero => (a.lg - b.lg <= Scale \div 1000 /\ b.lg - a.lg <= Scale \div 1000)

OperationalSum(operational) ==
    RAdd(RAdd(RAdd(operational.evacuation, operational.shelters),
              operational.hospitals), operational.military)

ScenarioA ==
    [diameter_m |-> 200, velocity_kms |-> 17, impact_angle_deg |-> 30,
     target_type |-> "rocha"]

\* C13: for diameter 200 m, velocity 17 km/s, angle 30 degrees and a rock target
\* the energy lies between 4 and 5 megatons, the impact is a surface impact and
\* the crater diameter is greater than 0.
C13_ScenarioAEnergy ==
    (reportData # NULL /\ simParams = ScenarioA) =>
        /\ RLess(RInt(4), reportData.impact.energy)
        /\ RLess(reportData.impact.energy, RInt(5))
        /\ reportData.impact.type = "IMPACTO DIRETO"
        /\ ~reportData.impact.crater.zero

\* C14: after a simulation the map is locked: whenever simulation results are
\* present (backend run, fallback or NEO impact analysis), isMapLocked is true.
C14_ResultsImplyLocked == simulationData # NULL => isMapLocked

\* C15: while the map is locked a map click is ignored: handleMapClick leaves the
\* form's latitude and longitude, the map center and the click marker unchanged
\* and schedules no timer.
C15_LockedClickIgnored ==
    isMapLocked =>
        \A e \in MapClicks :
            /\ MapClickResult(e).simulationForm.latitude = simulationForm.latitude
            /\ MapClickResult(e).simulationForm.longitude = simulationForm.longitude
            /\ MapClickResult(e).center = center
            /\ MapClickResult(e).mapClickFeedback = mapClickFeedback
            /\ MapClickResult(e).feedbackTimers = feedbackTimers

\* the map was locked at a clicked position while the marker of that click is
\* still shown and its timer pending
C15_Witness ==
    /\ isMapLocked
    /\ center # InitialCenter
    /\ mapClickFeedback # NULL
    /\ feedbackTimers # <<>>

ImpactPosition == <<center, simulationForm.latitude, simulationForm.longitude>>

\* C16: from the moment the map is locked until New Simulation is invoked, the
\* impact position (map center and form latitude/longitude) does not change under
\* any user action or callback other than New Simulation.
C16_PositionProtected ==
    [][(isMapLocked /\ ~handleNewSimulation) => UNCHANGED ImpactPosition]_vars

\* C17: once isMapLocked is true it stays true through map clicks, form edits,
\* mode switches, further runs, NEO selections and AI route updates, and becomes
\* false only when handleNewSimulation runs.
C17_LockPersistent ==
    [][(isMapLocked /\ ~isMapLocked') => handleNewSimulation]_vars

\* a locked map that has seen a further run, a mode switch, a NEO selection and
\* AI route updates
C17_Witness ==
    /\ isMapLocked
    /\ simulationMode = "neo"
    /\ neoSelected # NULL
    /\ Len(alerts) > 3
    /\ optimalRoutes # <<>>

\* C18: New Simulation unlocks the map and clears the previous simulation: right
\* after it isMapLocked is false and simulationData, danger zones, evacuation
\* routes, shelters, safe zones, optimal routes, AI-optimized routes, alerts and
\* click feedback are empty, while the form and the mode are unchanged.
C18_NewSimulationClears ==
    [][handleNewSimulation =>
          /\ ~isMapLocked'
          /\ simulationData' = NULL
          /\ dangerZones' = <<>>
          /\ evacuationRoutes' = <<>>
          /\ shelters' = <<>>
          /\ safeZones' = <<>>
          /\ optimalRoutes' = <<>>
          /\ aiOptimizedRoutes' = <<>>
          /\ alerts' = <<>>
          /\ mapClickFeedback' = NULL
          /\ UNCHANGED <<simulationForm, simulationMode>>]_vars

\* New Simulation can be clicked, in NEO mode, with every list filled and the
\* click marker shown
C18_Witness ==
    /\ ENABLED handleNewSimulation
    /\ simulationMode = "neo"
    /\ simulationData # NULL
    /\ dangerZones # <<>>
    /\ evacuationRoutes # <<>>
    /\ shelters # <<>>
    /\ safeZones # <<>>
    /\ optimalRoutes # <<>>
    /\ aiOptimizedRoutes # <<>>
    /\ alerts # <<>>
    /\ mapClickFeedback # NULL

\* C19: every runSimulation that starts, whatever the backend does, ends with
\* non-null simulationData, generated zones and alerts, and with loading and
\* isSimulating both false.
C19_RunEndsWithResults ==
    [][(loading /\ ~loading') =>
          /\ simulationData' # NULL
          /\ dangerZones' # <<>>
          /\ evacuationRoutes' # <<>>
          /\ alerts' # <<>>
          /\ ~isSimulating']_vars

\* C20: a request whose attempt is aborted by the timeout is issued again
\* rather than reported as failed after a single attempt.
C20_TimeoutRetried ==
    \A i \in RequestIds :
        (requests[i].result # NULL /\ requests[i].result.error = TimeoutMessage) =>
            requests[i].fetches > 1

\* C21: while the 2 seconds of the latest accepted click are running (its timer
\* is still pending), the marker of that click is displayed at its position
C21_FeedbackLastsTwoSeconds ==
    feedbackTimers # <<>> =>
        /\ mapClickFeedback # NULL
        /\ mapClickFeedback.position = feedbackTimers[Len(feedbackTimers)]

\* C22: each mode keeps its own state: what the NEO search does leaves the form
\* of the custom mode as it was, and a switch of the mode changes neither that
\* form nor the asteroid selected in the NEO search
C22_ModesIsolated ==
    [][/\ (NeoAsteroidFound \/ NeoImpactAnalysis) => UNCHANGED simulationForm
       /\ simulationMode' # simulationMode => UNCHANGED <<simulationForm, neoSelected>>]_vars

\* C23: at most one simulateImpact request started by runSimulation is in
\* flight at any time
C23_OneSimulationInFlight == Len(pendingSimulation) <= 1

\* a request is in flight and the run button is on the page: a further click
\* on it is the case the claim is about
C23_Witness ==
    /\ Len(pendingSimulation) = 1
    /\ PageReachable
    /\ simulationMode = "custom"

\* C24: request never rejects; whatever happened to the fetch, it resolves to
\* success true with the parsed data, or to success false with an error message
\* and data null; an abort by the timeout gives the timeout message; and the
\* timeout timer is cleared when the call is over
C24_RequestAlwaysResolves ==
    \A i \in RequestIds :
        /\ requests[i].phase # "rejected"
        /\ requests[i].phase = "settled" =>
              LET result == requests[i].result
              IN  /\ result # NULL
                  /\ ~requests[i].timeoutArmed
                  /\ result.success <=> requests[i].outcome = "2xx"
                  /\ result.success => result.data = requests[i].endpoint
                  /\ ~result.success => (result.error # "" /\ result.data = NULL)
                  /\ requests[i].outcome = "timeout" => result.error = TimeoutMessage

\* one call ended by the timeout and another by a network failure
C24_Witness ==
    \E i, j \in RequestIds :
        /\ requests[i].phase = "settled" /\ requests[i].outcome = "timeout"
        /\ requests[j].phase = "settled" /\ requests[j].outcome = "network"

\* C25: the evacuation routes and the generated safe zones on the map are
\* anchored at the displayed impact point: every route starts at the current
\* center, and every generated safe zone lies at its safe radius from it
C25_RoutesAnchoredAtCenter ==
    /\ \A k \in DOMAIN evacuationRoutes : evacuationRoutes[k].from = center
    /\ \A k \in DOMAIN safeZones :
          "position" \in DOMAIN safeZones[k] =>
              /\ safeZones[k].position.origin = center
              /\ safeZones[k].position.degrees = RDiv(safeZones[k].distance, RInt(111))

====
